---- MODULE Spec2Model ----
(***************************************************************************)
(* Model of the Amazon competitor-analysis pipeline:                       *)
(*   src/src/data/models.py     Product, SearchRequest                     *)
(*   src/src/data/processor.py  ProductProcessor                           *)
(*   src/src/utils/extractors.py  BrandExtractor                          *)
(*   src/src/api/serpapi_client.py  SerpAPIClient                          *)
(*   src/app.py                 create_sidebar, fetch_products, main       *)
(*                                                                         *)
(* Units.  Python floats are modelled by scaled integers: a rating is in   *)
(* tenths (4.5 is 45), discount_pct is in tenths of a percent (20.0 is     *)
(* 200), prices are whole currency units.  An Optional value is a sequence *)
(* of length 0 (None) or 1 (the value).  A string that the code inspects   *)
(* character by character is a sequence of one-character strings.          *)
(***************************************************************************)
EXTENDS Integers, Sequences, FiniteSets, TLC

VARIABLES
    \* --- one call of a ProductProcessor / Product operation ---
    op,        \* which operation is called
    args,      \* its arguments
    ret,       \* what it returned (or that it raised)
    phase,     \* "ready" before the call, "done" after it
    seen_before,\* the identifiers every earlier deduplicate_products call has seen
    prev_call, \* the operation and arguments of the call before this one
    \* --- one run of the Streamlit script (app.py main) ---
    app_pc,        \* position of the script
    widgets,       \* the values of the sidebar widgets, the button, the API key
    search_request,\* the validated SearchRequest, <<>> before it exists
    page,          \* the page fetch_products is on
    attempt,       \* the HTTP attempt of the current _make_request
    all_products,  \* fetch_products: the accumulated products
    http_calls,    \* number of requests.get calls made so far in this run
    batches,       \* number of process_api_response calls made so far
    fetched,       \* the pages whose products were appended, in order
    page_results,  \* what process_api_response returned for each fetched page
    outcomes,      \* how each attempt of the current _make_request ended
    exc,           \* the exception fetch_products caught, "none" if none
    session_df,    \* st.session_state.df: the table, <<>> before it is stored
    ui             \* the messages shown (st.error / st.warning / st.info)

callVars == <<op, args, ret, phase, seen_before, prev_call>>
appVars == <<app_pc, widgets, search_request, page, attempt, all_products,
             http_calls, batches, fetched, page_results, outcomes, exc,
             session_df, ui>>
vars == <<op, args, ret, phase, seen_before, prev_call, app_pc, widgets,
          search_request, page, attempt, all_products, http_calls, batches,
          fetched, page_results, outcomes, exc, session_df, ui>>

-----------------------------------------------------------------------------
(* Optional values and Python truthiness *)

None == <<>>

Some(v) == <<v>>

\* `if x:` for an Optional number: None and 0 / 0.0 are falsy
TruthyNum(x) == x # None /\ x[1] # 0

\* `if x:` for an Optional string: None and "" are falsy
TruthyStr(x) == x # None /\ x[1] # ""

\* `if x:` for an Optional text held as its sequence of characters
TruthyText(x) == x # None /\ x[1] # <<>>

\* round(num / den * 10) to an integer, ties to even: what CPython's
\* round(x, 1) gives for every quotient of the prices drawn below
RoundHalfEven(num, den) ==
    LET q == num \div den
        r == num - q * den
    IN  IF 2 * r > den THEN q + 1
        ELSE IF 2 * r = den THEN q + (q % 2)
        ELSE q

-----------------------------------------------------------------------------
(* Strings as sequences of one-character strings *)

UpperCase == <<"A", "B", "C", "D", "E", "F", "G", "H", "I", "J", "K", "L", "M",
               "N", "O", "P", "Q", "R", "S", "T", "U", "V", "W", "X", "Y", "Z">>

LowerCase == <<"a", "b", "c", "d", "e", "f", "g", "h", "i", "j", "k", "l", "m",
               "n", "o", "p", "q", "r", "s", "t", "u", "v", "w", "x", "y", "z">>

\* str.lower() of one character
LowerChar(c) ==
    IF \E i \in 1..Len(UpperCase) : UpperCase[i] = c
    THEN LowerCase[CHOOSE i \in 1..Len(UpperCase) : UpperCase[i] = c]
    ELSE c

\* str.lower()
Lower(str) == [i \in 1..Len(str) |-> LowerChar(str[i])]

IsSpace(c) == c \in {" ", "\t", "\n"}

\* str.strip(): drop leading and trailing whitespace
Strip(str) ==
    LET keep == {i \in 1..Len(str) : ~IsSpace(str[i])}
    IN  IF keep = {} THEN <<>>
        ELSE LET first == CHOOSE i \in keep : \A j \in keep : i <= j
                 last == CHOOSE i \in keep : \A j \in keep : j <= i
             IN  SubSeq(str, first, last)

\* `sub in str`
Contains(str, sub) ==
    \E i \in 1..(Len(str) - Len(sub) + 1) :
        SubSeq(str, i, i + Len(sub) - 1) = sub

-----------------------------------------------------------------------------
(* models.py: Product *)

\* rating: Field(None, ge=0, le=5), in tenths
RatingLe == 50

\* discount_pct: Field(default=0.0, ge=0, le=100), in tenths of a percent
DiscountLe == 1000

\* Optional[float] = Field(None, ge=0)
GeZero(x) == x = None \/ x[1] >= 0

\* Optional[float] = Field(None, ge=0, le=5)
RatingField(x) == x = None \/ (x[1] >= 0 /\ x[1] <= RatingLe)

\* float = Field(default=0.0, ge=0, le=100): the declared constraint, which
\* pydantic applies to the supplied value before the class validator runs
DiscountField(v) == v >= 0 /\ v <= DiscountLe

\* @validator("discount_pct", always=True); price and old_price are
\* values.get("price") and values.get("old_price")
calculate_discount(v, price, old_price) ==
    IF v = 0 /\ TruthyNum(price) /\ TruthyNum(old_price)
    THEN IF old_price[1] > 0
         THEN RoundHalfEven((old_price[1] - price[1]) * 1000, old_price[1])
         ELSE v
    ELSE v

\* @validator("brand") without the cut at 50 characters
validate_brand_no_cut(v) ==
    LET stripped == IF v # <<>> THEN Strip(v) ELSE v
    IN  IF stripped # <<>> THEN stripped ELSE <<"U", "n", "k", "n", "o", "w", "n">>

\* @validator("brand"): a non-empty brand is stripped and cut to its first
\* 50 characters; an empty result becomes "Unknown"
validate_brand(v) ==
    LET stripped == IF v # <<>> THEN Strip(v) ELSE v
    IN  IF v # <<>> /\ Len(stripped) > 50 THEN SubSeq(stripped, 1, 50)
        ELSE IF stripped # <<>> THEN stripped
        ELSE <<"U", "n", "k", "n", "o", "w", "n">>

\* Product(**kw): every field is validated against its declaration; a field
\* that fails is missing from `values`; the class validator of discount_pct
\* runs after the field's own ge/le check and its result is not checked
\* again; any failed field makes the construction raise ValidationError.
\* kw.discount_pct = None stands for "not supplied" (the default 0.0 is used).
\* kw.brand = None stands for "not supplied": the default "Unknown" is used
\* and validate_brand, which is not declared always=True, does not run.
Product(kw) ==
    LET supplied == kw.discount_pct # None
        v == IF supplied THEN kw.discount_pct[1] ELSE 0
        price_ok == GeZero(kw.price)
        old_ok == GeZero(kw.old_price)
        ok == /\ price_ok /\ old_ok
              /\ RatingField(kw.rating)
              /\ GeZero(kw.reviews)
              /\ DiscountField(v)
        values_price == IF price_ok THEN kw.price ELSE None
        values_old == IF old_ok THEN kw.old_price ELSE None
    IN  IF ok
        THEN [raised |-> FALSE,
              value |-> Some([type |-> kw.type, position |-> kw.position,
                              asin |-> kw.asin,
                              brand |-> IF kw.brand = None THEN <<"U", "n", "k", "n", "o", "w", "n">>
                                        ELSE validate_brand(kw.brand[1]),
                              price |-> kw.price,
                              old_price |-> kw.old_price, rating |-> kw.rating,
                              reviews |-> kw.reviews,
                              discount_pct |->
                                  calculate_discount(v, values_price, values_old)])]
        ELSE [raised |-> TRUE, value |-> None]

-----------------------------------------------------------------------------
(* config.py and models.py: SearchRequest *)

\* Config.MAX_RETRIES with one attempt more than the code allows
MAX_RETRIES_four == 3 + 1

\* Config.MAX_RETRIES
MAX_RETRIES == 3

\* Config.MAX_PAGES
MAX_PAGES == 5

\* Config.SUPPORTED_DOMAINS
SUPPORTED_DOMAINS ==
    {"amazon.com", "amazon.co.uk", "amazon.de", "amazon.fr", "amazon.ca",
     "amazon.es", "amazon.it", "amazon.co.jp", "amazon.com.au", "amazon.in",
     "amazon.com.br", "amazon.com.mx"}

\* query: Field(..., min_length=1, max_length=200)
QueryMinLength == 1

QueryMaxLength == 200

\* num_pages: Field(default=1, ge=1, le=5)
NumPagesLe == 5

\* validate_query: dangerous_chars
dangerous_chars ==
    {<<"<">>, <<">">>,
     <<"s", "c", "r", "i", "p", "t">>,
     <<"j", "a", "v", "a", "s", "c", "r", "i", "p", "t", ":">>,
     <<"o", "n", "e", "r", "r", "o", "r", "=">>}

\* validate_query that only strips
validate_query_only_strips(v) == [raised |-> FALSE, value |-> Strip(v)]

\* @validator("query"): strip, then reject a dangerous substring of the
\* lower-cased text
validate_query(v) ==
    LET stripped == Strip(v)
        v_lower == Lower(stripped)
    IN  IF \E char \in dangerous_chars : Contains(v_lower, char)
        THEN [raised |-> TRUE, value |-> None]
        ELSE [raised |-> FALSE, value |-> stripped]

\* @validator("domain")
validate_domain(v) == v \in SUPPORTED_DOMAINS

\* SearchRequest(**kw): the length constraints of query are applied before
\* validate_query; any failed field raises ValidationError (a ValueError)
SearchRequest(kw) ==
    LET length_ok == Len(kw.query) >= QueryMinLength
                     /\ Len(kw.query) <= QueryMaxLength
        q == validate_query(kw.query)
        ok == /\ length_ok /\ ~q.raised
              /\ validate_domain(kw.domain)
              /\ kw.num_pages >= 1 /\ kw.num_pages <= NumPagesLe
              /\ kw.min_rating >= 0 /\ kw.min_rating <= RatingLe
              /\ kw.min_reviews >= 0
    IN  IF ok
        THEN [raised |-> FALSE,
              value |-> Some([query |-> q.value, domain |-> kw.domain,
                              num_pages |-> kw.num_pages,
                              include_ads |-> kw.include_ads,
                              include_organic |-> kw.include_organic,
                              min_rating |-> kw.min_rating,
                              min_reviews |-> kw.min_reviews])]
        ELSE [raised |-> TRUE, value |-> None]

-----------------------------------------------------------------------------
(* extractors.py: BrandExtractor *)

\* the en dash U+2013, one character of a text
EnDash == "u2013"

Digits == {"0", "1", "2", "3", "4", "5", "6", "7", "8", "9"}

IsUpperChar(c) == \E i \in 1..Len(UpperCase) : UpperCase[i] = c
IsLowerChar(c) == \E i \in 1..Len(LowerCase) : LowerCase[i] = c
IsLetter(c) == IsUpperChar(c) \/ IsLowerChar(c)

\* str.upper() of one character
UpperChar(c) ==
    IF IsLowerChar(c)
    THEN UpperCase[CHOOSE i \in 1..Len(LowerCase) : LowerCase[i] = c]
    ELSE c

\* str.isupper(): a cased character exists and none is lower case
IsUpper(str) ==
    /\ \E i \in 1..Len(str) : IsUpperChar(str[i])
    /\ \A i \in 1..Len(str) : ~IsLowerChar(str[i])

\* str.islower(): a cased character exists and none is upper case
IsLower(str) ==
    /\ \E i \in 1..Len(str) : IsLowerChar(str[i])
    /\ \A i \in 1..Len(str) : ~IsUpperChar(str[i])

\* str.isdigit(): not empty and every character a digit
IsDigit(str) == str # <<>> /\ \A i \in 1..Len(str) : str[i] \in Digits

\* str.title(): a letter is upper-cased when no letter precedes it and
\* lower-cased otherwise
Title(str) ==
    [i \in 1..Len(str) |->
        IF i > 1 /\ IsLetter(str[i - 1]) THEN LowerChar(str[i])
        ELSE UpperChar(str[i])]

\* str.replace(" ", "")
RemoveSpaces(str) == SelectSeq(str, LAMBDA c : c # " ")

\* str.split(): the maximal runs of non-whitespace characters, in order
Split(str) ==
    LET starts == {i \in 1..Len(str) :
                      ~IsSpace(str[i]) /\ (i = 1 \/ IsSpace(str[i - 1]))}
        EndOf(i) == CHOOSE j \in i..Len(str) :
                        /\ \A k \in i..j : ~IsSpace(str[k])
                        /\ (j = Len(str) \/ IsSpace(str[j + 1]))
        Nth(n) == CHOOSE i \in starts :
                      Cardinality({s \in starts : s <= i}) = n
    IN  [n \in 1..Cardinality(starts) |-> SubSeq(str, Nth(n), EndOf(Nth(n)))]

\* " ".join(words)
RECURSIVE Join(_)
Join(words) ==
    IF words = <<>> THEN <<>>
    ELSE IF Len(words) = 1 THEN words[1]
    ELSE words[1] \o <<" ">> \o Join(Tail(words))

\* group(1) of a match of ^([^c]+)...c at the start of title, c being any
\* character of chars: the text before the first such character, which must
\* not be the first character of title; None when the pattern fails
group_before(title, chars) ==
    LET at == {i \in 1..Len(title) : title[i] \in chars}
    IN  IF at = {} THEN None
        ELSE LET first == CHOOSE i \in at : \A j \in at : i <= j
             IN  IF first >= 2 THEN Some(SubSeq(title, 1, first - 1))
                 ELSE None

\* group(1) of a match of ^(.+?)\s+by\s+ : the shortest text of at least
\* one character (none a line break) followed by whitespace, "by" and
\* whitespace; None when the pattern fails
group_before_by(title) ==
    LET ends == {i \in 1..Len(title) :
                    /\ \A k \in 1..i : title[k] # "\n"
                    /\ \E j \in (i + 1)..(Len(title) - 3) :
                          /\ \A k \in (i + 1)..j : IsSpace(title[k])
                          /\ title[j + 1] = "b"
                          /\ title[j + 2] = "y"
                          /\ IsSpace(title[j + 3])}
    IN  IF ends = {} THEN None
        ELSE Some(SubSeq(title, 1, CHOOSE i \in ends : \A j \in ends : i <= j))

\* BRAND_PATTERNS tried in the order comma, hyphen, "by", pipe
BRAND_PATTERNS_comma_first(n, title) ==
    IF n = 1 THEN group_before(title, {","})
    ELSE IF n = 2 THEN group_before(title, {"-", EnDash})
    ELSE IF n = 3 THEN group_before_by(title)
    ELSE group_before(title, {"|"})

\* BRAND_PATTERNS in their order: group(1) of pattern number n matched at
\* the start of title
BRAND_PATTERNS(n, title) ==
    IF n = 1 THEN group_before(title, {"-", EnDash})
    ELSE IF n = 2 THEN group_before(title, {","})
    ELSE IF n = 3 THEN group_before_by(title)
    ELSE group_before(title, {"|"})

EXCLUDE_WORDS ==
    {<<"p", "a", "c", "k">>,
     <<"s", "e", "t">>,
     <<"b", "u", "n", "d", "l", "e">>,
     <<"p", "i", "e", "c", "e">>,
     <<"p", "i", "e", "c", "e", "s">>,
     <<"p", "c", "s">>,
     <<"c", "o", "m", "p", "a", "t", "i", "b", "l", "e">>,
     <<"r", "e", "p", "l", "a", "c", "e", "m", "e", "n", "t">>,
     <<"f", "o", "r">>}

\* _is_valid_brand
is_valid_brand(brand) ==
    /\ ~(brand = <<>> \/ Len(brand) < 2)
    /\ ~(Len(brand) > 50)
    /\ \A exclude_word \in EXCLUDE_WORDS :
           ~Contains(Lower(brand), exclude_word)
    /\ ~IsDigit(RemoveSpaces(brand))

\* re.sub(r'\s+(Store|Official|Shop)$', '', brand, flags=re.IGNORECASE)
remove_suffix(brand) ==
    LET suffixes == {<<"s", "t", "o", "r", "e">>, <<"o", "f", "f", "i", "c", "i", "a", "l">>, <<"s", "h", "o", "p">>}
        cuts == {i \in 1..Len(brand) :
                    /\ IsSpace(brand[i])
                    /\ (i = 1 \/ ~IsSpace(brand[i - 1]))
                    /\ \E j \in i..(Len(brand) - 1) :
                          /\ \A k \in i..j : IsSpace(brand[k])
                          /\ Lower(SubSeq(brand, j + 1, Len(brand)))
                                 \in suffixes}
    IN  IF cuts = {} THEN brand
        ELSE SubSeq(brand, 1, (CHOOSE i \in cuts : TRUE) - 1)

\* _clean_brand_name, lines 146-152, brand being what lines 141 and 144
\* left: mixed case is kept, one case is title-cased
capitalize_properly(brand) ==
    IF ~(IsUpper(brand) \/ IsLower(brand)) THEN Strip(brand)
    ELSE Title(Strip(brand))

\* _clean_brand_name that title-cases whatever the casing is
clean_brand_name_always_title(brand) ==
    Title(Strip(remove_suffix(Join(Split(brand)))))

\* _clean_brand_name
clean_brand_name(brand) ==
    capitalize_properly(remove_suffix(Join(Split(brand))))

\* match.group(1).strip() for a match, None for none
stripped_group(match) ==
    IF match = None THEN None ELSE Some(Strip(match[1]))

\* _extract_from_title, lines 84-97: the two fallback candidates of the
\* words of the title
fallback_brands(words) ==
    <<IF Len(words) >= 2 THEN Some(words[1] \o <<" ">> \o words[2])
      ELSE None,
      IF Len(words) >= 1 THEN Some(words[1]) ELSE None>>

\* _extract_from_title, title being stripped: the candidates in the order
\* they are tried, None where a pattern fails or the title has too few words
potential_brands(title) ==
    [n \in 1..4 |-> stripped_group(BRAND_PATTERNS(n, title))]
        \o fallback_brands(Split(title))

\* the numbers of the candidates that _is_valid_brand accepts
valid_brands(tried) ==
    {n \in 1..Len(tried) : tried[n] # None /\ is_valid_brand(tried[n][1])}

\* the cleaned candidate of the smallest number in valid, None if none
first_valid_brand(tried, valid) ==
    IF valid = {} THEN None
    ELSE Some(clean_brand_name(
                  tried[CHOOSE n \in valid : \A m \in valid : n <= m][1]))

\* the candidates tried and the numbers of the valid ones
tried_and_valid(tried) == first_valid_brand(tried, valid_brands(tried))

\* _extract_from_title: the cleaned first valid candidate, None if none
extract_from_title(title) == tried_and_valid(potential_brands(Strip(title)))

\* the literal "Unknown"
Unknown == <<"U", "n", "k", "n", "o", "w", "n">>

\* extract_brand, line 50 and 51: the stripped brand field, "" when the
\* key is absent or its value falsy
explicit_brand(field) == IF TruthyText(field) THEN Strip(field[1]) ELSE <<>>

\* extract_brand, line 52
is_usable_brand(brand) ==
    /\ brand # <<>>
    /\ Lower(brand) \notin {<<"u", "n", "k", "n", "o", "w", "n">>,
                            <<"n", "/", "a">>, <<"n", "o", "n", "e">>}

\* extract_brand, lines 60-63: what _extract_from_title found, or "Unknown"
brand_or_unknown(from_title) ==
    IF from_title # None THEN from_title[1] ELSE Unknown

\* extract_brand, lines 56-63: the brand of the title field
brand_of_title(field) ==
    brand_or_unknown(IF TruthyText(field) THEN extract_from_title(field[1])
                     ELSE None)

\* extract_brand, brand being the stripped brand field
brand_or_title(brand, title) ==
    IF is_usable_brand(brand) THEN clean_brand_name(brand)
    ELSE brand_of_title(title)

\* extract_brand looking at the title before the brand field
brand_or_title_title_first(brand, title) ==
    IF brand_of_title(title) # Unknown THEN brand_of_title(title)
    ELSE IF brand # <<>> THEN clean_brand_name(brand)
    ELSE Unknown

\* extract_brand that looks at the title before the brand field
extract_brand_title_first(product_data) ==
    brand_or_title_title_first(explicit_brand(product_data.brand),
                               product_data.title)

\* extract_brand: product_data.brand and product_data.title are None when
\* the key is absent or holds null
extract_brand(product_data) ==
    brand_or_title(explicit_brand(product_data.brand), product_data.title)

-----------------------------------------------------------------------------
(* processor.py: ProductProcessor *)

\* the keyword arguments _parse_product passes to Product
ProductKw(raw_data) ==
    [type |-> IF raw_data.sponsored THEN "Sponsored" ELSE "Organic",
     position |-> raw_data.position,
     asin |-> raw_data.asin,
     brand |-> Some(extract_brand([brand |-> raw_data.brand,
                                   title |-> raw_data.title])),
     price |-> raw_data.extracted_price,
     old_price |-> raw_data.extracted_old_price,
     rating |-> raw_data.rating,
     reviews |-> raw_data.reviews,
     discount_pct |-> None]

\* _parse_product without its try/except: the ValidationError escapes
parse_product_no_except(raw_data) == Product(ProductKw(raw_data))

\* _parse_product, lines 91-93: None in place of the exception
none_if_raised(r) == IF r.raised THEN [raised |-> FALSE, value |-> None] ELSE r

\* _parse_product: the Product, or None when anything raised
parse_product(raw_data) == none_if_raised(Product(ProductKw(raw_data)))

\* process_api_response, lines 42-46: the product r holds is put in front
\* of rest when it exists and the flags permit its kind
appended_if_permitted(r, rest, include_organic, include_ads) ==
    IF r.raised \/ r.value = None THEN rest
    ELSE IF (r.value[1].type = "Sponsored" /\ include_ads)
            \/ (r.value[1].type # "Sponsored" /\ include_organic)
         THEN <<r.value[1]>> \o rest
         ELSE rest

\* the body of the loop of process_api_response over organic_results:
\* a raise of _parse_product is caught and the record skipped (lines 47-49)
RECURSIVE process_records(_, _, _)
process_records(records, include_organic, include_ads) ==
    IF records = <<>> THEN <<>>
    ELSE appended_if_permitted(
             parse_product(Head(records)),
             process_records(Tail(records), include_organic, include_ads),
             include_organic, include_ads)

\* process_api_response that drops the two flags
process_api_response_no_flags(api_response, include_organic, include_ads) ==
    IF api_response.has_organic_results
    THEN process_records(api_response.organic_results, TRUE, TRUE)
    ELSE <<>>

\* process_api_response(api_response, include_organic, include_ads)
process_api_response(api_response, include_organic, include_ads) ==
    IF include_organic /\ api_response.has_organic_results
    THEN process_records(api_response.organic_results,
                         include_organic, include_ads)
    ELSE <<>>

\* deduplicate_products with the membership test inverted
RECURSIVE dedup_loop_inverted(_, _)
dedup_loop_inverted(products, seen_asins) ==
    IF products = <<>> THEN <<>>
    ELSE LET product == Head(products)
         IN  IF TruthyStr(product.asin) /\ product.asin[1] \notin seen_asins
             THEN dedup_loop_inverted(Tail(products),
                                      seen_asins \cup {product.asin[1]})
             ELSE <<product>> \o dedup_loop_inverted(Tail(products), seen_asins)

\* deduplicate_products testing `product.asin in seen_asins` without the
\* truthiness guard, so that identifier-less products count as duplicates
RECURSIVE dedup_loop_no_guard(_, _)
dedup_loop_no_guard(products, seen_asins) ==
    IF products = <<>> THEN <<>>
    ELSE LET product == Head(products)
         IN  IF product.asin \in seen_asins
             THEN dedup_loop_no_guard(Tail(products), seen_asins)
             ELSE <<product>> \o
                  dedup_loop_no_guard(Tail(products),
                                      seen_asins \cup {product.asin})

\* the loop of deduplicate_products, seen_asins being the set built so far
RECURSIVE dedup_loop(_, _)
dedup_loop(products, seen_asins) ==
    IF products = <<>> THEN <<>>
    ELSE LET product == Head(products)
         IN  IF TruthyStr(product.asin) /\ product.asin[1] \in seen_asins
             THEN dedup_loop(Tail(products), seen_asins)
             ELSE <<product>> \o
                  dedup_loop(Tail(products),
                             IF TruthyStr(product.asin)
                             THEN seen_asins \cup {product.asin[1]}
                             ELSE seen_asins)

\* deduplicate_products with seen_asins kept on the processor from call to
\* call instead of being created by each call
deduplicate_products_remembering(products) == dedup_loop(products, seen_before)

deduplicate_products_inverted(products) == dedup_loop_inverted(products, {})

deduplicate_products_no_guard(products) == dedup_loop_no_guard(products, {})

\* deduplicate_products(products)
deduplicate_products(products) == dedup_loop(products, {})

\* the filter loop's test letting an unknown rating or review count through
filter_keeps_unknown_passes(product, min_rating, min_reviews, max_price, min_price) ==
    /\ ~(min_rating > 0 /\ TruthyNum(product.rating)
         /\ product.rating[1] < min_rating)
    /\ ~(min_reviews > 0 /\ TruthyNum(product.reviews)
         /\ product.reviews[1] < min_reviews)
    /\ ~(TruthyNum(product.price) /\ TruthyNum(max_price)
         /\ product.price[1] > max_price[1])
    /\ ~(TruthyNum(product.price) /\ TruthyNum(min_price)
         /\ product.price[1] < min_price[1])

\* filter_products, one product: TRUE when no `continue` is taken
filter_keeps(product, min_rating, min_reviews, max_price, min_price) ==
    /\ ~(min_rating > 0
         /\ (~TruthyNum(product.rating) \/ product.rating[1] < min_rating))
    /\ ~(min_reviews > 0
         /\ (~TruthyNum(product.reviews) \/ product.reviews[1] < min_reviews))
    /\ ~(TruthyNum(product.price) /\ TruthyNum(max_price)
         /\ product.price[1] > max_price[1])
    /\ ~(TruthyNum(product.price) /\ TruthyNum(min_price)
         /\ product.price[1] < min_price[1])

\* filter_products(products, min_rating, min_reviews, max_price, min_price)
RECURSIVE filter_products(_, _, _, _, _)
filter_products(products, min_rating, min_reviews, max_price, min_price) ==
    IF products = <<>> THEN <<>>
    ELSE LET rest == filter_products(Tail(products), min_rating, min_reviews,
                                     max_price, min_price)
         IN  IF filter_keeps(Head(products), min_rating, min_reviews,
                             max_price, min_price)
             THEN <<Head(products)>> \o rest
             ELSE rest

\* pd.DataFrame(): the table without columns and rows
EmptyTable == [columns |-> {}, rows |-> <<>>]

\* to_dataframe taking the columns from products[0] with no guard for the
\* empty list, which raises IndexError
to_dataframe_columns_of_first(products) ==
    IF products = <<>> THEN [raised |-> TRUE, value |-> None]
    ELSE [raised |-> FALSE,
          value |-> [columns |-> DOMAIN products[1], rows |-> products]]

\* to_dataframe: no table columns for the empty list; else one row per
\* product (model_dump), one column per field; pd.to_numeric leaves the
\* numbers as they are and turns a missing one into NaN, written None
to_dataframe(products) ==
    IF products = <<>> THEN [raised |-> FALSE, value |-> EmptyTable]
    ELSE [raised |-> FALSE,
          value |-> [columns |-> DOMAIN products[1], rows |-> products]]

-----------------------------------------------------------------------------
(* The inputs the operations are called with *)

\* longest organic_results list of a response
MaxBatch == 2

\* longest product list given to deduplicate_products
MaxProducts == 3

\* longest product list given to filter_products
MaxFilterLen == 2

\* all sequences over S of length 0..n
SeqUpTo(S, n) == UNION {[1..k -> S] : k \in 0..n}

Opt(S) == {None} \cup {Some(v) : v \in S}

\* most tokens of a generated title
MaxTitleTokens == 3

\* most tokens of a generated brand text
MaxBrandTokens == 2

\* " ".join(tokens) with sep between the tokens
RECURSIVE JoinWith(_, _)
JoinWith(tokens, sep) ==
    IF tokens = <<>> THEN <<>>
    ELSE IF Len(tokens) = 1 THEN tokens[1]
    ELSE tokens[1] \o sep \o JoinWith(Tail(tokens), sep)

\* the pieces product titles are built from
TitleTokens ==
    {<<"J", "B", "L">>,
     <<"s", "o", "n", "y">>,
     <<"S", "t", "o", "r", "e">>,
     <<"f", "o", "r">>,
     <<"1", "2">>,
     <<"b", "y">>,
     <<"X">>,
     <<"-">>, <<",">>, <<"|">>, <<EnDash>>}

\* "title" values of raw records: token texts and written-out titles
TitleTexts ==
    {JoinWith(tokens, <<" ">>) : tokens \in SeqUpTo(TitleTokens, MaxTitleTokens)}
    \cup
    {<<"J", "B", "L", ",", " ", "B", "l", "u", "e", "t", "o", "o", "t", "h", " ", "S", "p", "e", "a", "k", "e", "r">>,
     <<"S", "o", "n", "y", " ", "-", " ", "W", "i", "r", "e", "l", "e", "s", "s", " ", "E", "a", "r", "b", "u", "d", "s">>,
     <<"r", "e", "p", "l", "a", "c", "e", "m", "e", "n", "t", " ", "p", "a", "c", "k", " ", "c", "a", "b", "l", "e">>,
     <<"W", "i", "-", "F", "i", " ", "R", "o", "u", "t", "e", "r", " ", "b", "y", " ", "T", "P", "-", "L", "i", "n", "k">>,
     <<"A", "n", "k", "e", "r", " ", "|", " ", "C", "h", "a", "r", "g", "e", "r">>,
     <<"B", "o", "s", "e", " ", EnDash, " ", "Q", "C", "4", "5">>,
     <<"-", "x">>,
     <<" ", " ">>,
     <<>>,
     <<"a", " ", "f", "o", "r", " ", "b">>,
     <<"3", "m", ",", " ", "t", "a", "p", "e">>,
     <<"B", "O", "S", "E", " ", "O", "f", "f", "i", "c", "i", "a", "l", " ", "S", "t", "o", "r", "e", " ", "|", " ", "x">>,
     <<"1", "2", " ", "-", " ", "S", "o", "n", "y", " ", "W", "H", ",", " ", "x">>}

\* "x" * 51
LongBrand == [i \in 1..51 |-> "x"]

\* "brand" values extract_brand does not use
UnusableBrands ==
    {None,
     Some(<<>>),
     Some(<<"U", "n", "k", "n", "o", "w", "n">>),
     Some(<<"N", "/", "A">>),
     Some(<<" ", "n", "o", "n", "e", " ">>),
     Some(<<" ", " ">>)}

\* "brand" values extract_brand uses
UsableBrands ==
    {Some(<<"S", "o", "n", "y", " ", "S", "t", "o", "r", "e">>),
     Some(<<"A", "C", "M", "E", " ", " ", "o", "f", "f", "i", "c", "i", "a", "l">>),
     Some(<<"j", "b", "l">>),
     Some(<<"B", "o", "s", "e">>),
     Some(<<"o", "'", "n", "e", "i", "l", " ", "s", "h", "o", "p">>),
     Some(<<"S", "O", "N", "Y", " ", "2">>),
     Some(<<"U", "n", "k", "n", "o", "w", "n", " ", "S", "t", "o", "r", "e">>),
     Some(<<"X", " ", "S", "h", "o", "p">>),
     Some(<<"1", "2">>),
     Some(LongBrand)}

\* the pieces brand texts are built from
BrandTokens ==
    {<<"J", "B", "L">>,
     <<"s", "o", "n", "y">>,
     <<"A", "b">>,
     <<"S", "t", "o", "r", "e">>,
     <<"O", "F", "F", "I", "C", "I", "A", "L">>,
     <<"s", "h", "o", "p">>,
     <<"3", "m">>,
     <<"1", "2">>}

\* texts given to _clean_brand_name: tokens joined by one or two spaces
BrandTexts ==
    {JoinWith(tokens, sep) : tokens \in SeqUpTo(BrandTokens, MaxBrandTokens) \ {<<>>},
                             sep \in {<<" ">>, <<" ", " ">>}}
    \cup {b[1] : b \in UsableBrands}

\* raw records as far as extract_brand reads them: every title without a
\* usable brand, every usable brand with some titles
BrandRecords ==
    [brand : {None}, title : {Some(t) : t \in TitleTexts}]
    \cup [brand : UnusableBrands,
          title : {None, Some(<<"J", "B", "L", ",", " ", "B", "l", "u", "e", "t", "o", "o", "t", "h", " ", "S", "p", "e", "a", "k", "e", "r">>),
                   Some(<<"r", "e", "p", "l", "a", "c", "e", "m", "e", "n", "t", " ", "p", "a", "c", "k", " ", "c", "a", "b", "l", "e">>)}]
    \cup [brand : UsableBrands,
          title : {None, Some(<<>>), Some(<<"J", "B", "L", ",", " ", "B", "l", "u", "e", "t", "o", "o", "t", "h", " ", "S", "p", "e", "a", "k", "e", "r">>),
                   Some(<<"S", "o", "n", "y", " ", "-", " ", "W", "i", "r", "e", "l", "e", "s", "s", " ", "E", "a", "r", "b", "u", "d", "s">>)}]

\* prices a raw record can carry; -1 is the invalid one
Prices == {-1, 0, 15, 16, 80, 100, 120}

\* a raw record of organic_results with every field the model reads; no
\* "brand" and no "title" key
RawRecord(sponsored, position, asin, price, old_price, rating, reviews) ==
    [sponsored |-> sponsored, position |-> position, asin |-> asin,
     brand |-> None, title |-> None,
     extracted_price |-> price, extracted_old_price |-> old_price,
     rating |-> rating, reviews |-> reviews]

\* the raw record with a "brand" and a "title" value
WithBrand(raw_data, brand, title) ==
    [raw_data EXCEPT !.brand = brand, !.title = title]

\* " " + "x" * 51 + " "
PaddedLongBrand == <<" ">> \o LongBrand \o <<" ">>

\* keyword arguments of a direct Product(...) construction
ProductKws ==
    [type : {"Organic"}, position : {None}, asin : {None},
     brand : {None, Some(<<>>), Some(<<" ", " ">>), Some(<<" ", "S", "o", "n", "y", " ">>),
              Some(LongBrand), Some(PaddedLongBrand)},
     price : Opt(Prices), old_price : Opt(Prices),
     rating : {None, Some(45), Some(60)},
     reviews : {None, Some(-1)},
     discount_pct : {None, Some(0), Some(150), Some(1200)}]

\* raw records given to _parse_product alone
ParseRecords ==
    {RawRecord(s, None, Some("B001"), p, o, r, n) :
        s \in BOOLEAN, p \in Opt(Prices), o \in Opt(Prices),
        r \in {None, Some(45), Some(60), Some(-1)},
        n \in {None, Some(150), Some(-1)}}
    \cup
    {WithBrand(RawRecord(FALSE, None, Some("B001"), Some(80), None, None, None),
               b, t) :
        b \in UsableBrands \cup UnusableBrands,
        t \in {None, Some(<<"J", "B", "L", ",", " ", "B", "l", "u", "e", "t", "o", "o", "t", "h", " ", "S", "p", "e", "a", "k", "e", "r">>),
               Some(<<"r", "e", "p", "l", "a", "c", "e", "m", "e", "n", "t", " ", "p", "a", "c", "k", " ", "c", "a", "b", "l", "e">>)}}

\* raw records of a response: both kinds, valid and invalid ones
BatchRecords ==
    {RawRecord(s, None, Some("B001"), p, Some(100), r, Some(150)) :
        s \in BOOLEAN, p \in {Some(80), Some(-1)},
        r \in {None, Some(45), Some(60)}}

ApiResponses ==
    [has_organic_results : BOOLEAN,
     organic_results : SeqUpTo(BatchRecords, MaxBatch)]

\* the Products _parse_product makes of a set of raw records
ProductsOf(raws) ==
    {r.value[1] : r \in {parse_product(raw) : raw \in raws}
                         \ {[raised |-> FALSE, value |-> None]}}

\* Products that differ in identifier and position
DedupProducts ==
    ProductsOf({RawRecord(FALSE, Some(pos), a, Some(80), None, None, None) :
                   pos \in {1, 2},
                   a \in {None, Some(""), Some("B001"), Some("B002")}})

\* Products that differ in rating and review count, or in price
FilterProducts ==
    ProductsOf({RawRecord(FALSE, None, None, Some(80), None, r, n) :
                   r \in {None, Some(0), Some(30), Some(45)},
                   n \in {None, Some(0), Some(150)}}
               \cup
               {RawRecord(FALSE, None, None, p, None, Some(45), Some(150)) :
                   p \in {None, Some(0), Some(120)}})

\* thresholds of filter_products; max_price / min_price None is "not given"
FilterArgs ==
    [products : SeqUpTo(FilterProducts, MaxFilterLen),
     min_rating : {0, 40}, min_reviews : {0, 100},
     max_price : {None, Some(0), Some(100)},
     min_price : {None, Some(0), Some(100)}]

-----------------------------------------------------------------------------
(* The script run before it starts; used while single operations are called *)

AppIdle ==
    /\ app_pc = "idle"
    /\ widgets = None
    /\ search_request = None
    /\ page = 0
    /\ attempt = 0
    /\ all_products = <<>>
    /\ http_calls = 0
    /\ batches = 0
    /\ fetched = <<>>
    /\ page_results = <<>>
    /\ outcomes = <<>>
    /\ exc = "none"
    /\ session_df = <<>>
    /\ ui = <<>>

-----------------------------------------------------------------------------
(* Single calls: Init draws the operation and its arguments, the action    *)
(* applies it                                                              *)

Init ==
    /\ phase = "ready"
    /\ ret = None
    /\ seen_before = {}
    /\ prev_call = None
    /\ \/ op = "Product" /\ args \in [kw : ProductKws]
       \/ op = "parse_product" /\ args \in [raw_data : ParseRecords]
       \/ /\ op = "process_api_response"
          /\ args \in [api_response : ApiResponses,
                       include_organic : BOOLEAN, include_ads : BOOLEAN]
       \/ /\ op = "deduplicate_products"
          /\ args \in [products : SeqUpTo(DedupProducts, MaxProducts)]
       \/ op = "filter_products" /\ args \in FilterArgs
       \/ op = "extract_brand" /\ args \in [product_data : BrandRecords]
       \/ op = "clean_brand_name" /\ args \in [brand : BrandTexts]
       \/ /\ op = "to_dataframe"
          /\ args \in [products : SeqUpTo(DedupProducts, MaxBatch)]
    /\ AppIdle

CallProduct ==
    /\ phase = "ready" /\ op = "Product"
    /\ ret' = Product(args.kw)
    /\ phase' = "done"
    /\ UNCHANGED <<op, args, seen_before, prev_call>>
    /\ UNCHANGED appVars

CallParseProduct ==
    /\ phase = "ready" /\ op = "parse_product"
    /\ ret' = parse_product(args.raw_data)
    /\ phase' = "done"
    /\ UNCHANGED <<op, args, seen_before, prev_call>>
    /\ UNCHANGED appVars

CallProcessApiResponse ==
    /\ phase = "ready" /\ op = "process_api_response"
    /\ ret' = [raised |-> FALSE,
               value |-> process_api_response(args.api_response,
                                              args.include_organic,
                                              args.include_ads)]
    /\ phase' = "done"
    /\ UNCHANGED <<op, args, seen_before, prev_call>>
    /\ UNCHANGED appVars

CallDeduplicateProducts ==
    /\ phase = "ready" /\ op = "deduplicate_products"
    /\ ret' = [raised |-> FALSE, value |-> deduplicate_products(args.products)]
    /\ phase' = "done"
    /\ UNCHANGED <<op, args, seen_before, prev_call>>
    /\ UNCHANGED appVars

CallFilterProducts ==
    /\ phase = "ready" /\ op = "filter_products"
    /\ ret' = [raised |-> FALSE,
               value |-> filter_products(args.products, args.min_rating,
                                         args.min_reviews, args.max_price,
                                         args.min_price)]
    /\ phase' = "done"
    /\ UNCHANGED <<op, args, seen_before, prev_call>>
    /\ UNCHANGED appVars

CallExtractBrand ==
    /\ phase = "ready" /\ op = "extract_brand"
    /\ ret' = [raised |-> FALSE, value |-> extract_brand(args.product_data)]
    /\ phase' = "done"
    /\ UNCHANGED <<op, args, seen_before, prev_call>>
    /\ UNCHANGED appVars

CallCleanBrandName ==
    /\ phase = "ready" /\ op = "clean_brand_name"
    /\ ret' = [raised |-> FALSE, value |-> clean_brand_name(args.brand)]
    /\ phase' = "done"
    /\ UNCHANGED <<op, args, seen_before, prev_call>>
    /\ UNCHANGED appVars

CallToDataframe ==
    /\ phase = "ready" /\ op = "to_dataframe"
    /\ ret' = to_dataframe(args.products)
    /\ phase' = "done"
    /\ UNCHANGED <<op, args, seen_before, prev_call>>
    /\ UNCHANGED appVars

Next ==
    \/ CallProduct
    \/ CallParseProduct
    \/ CallProcessApiResponse
    \/ CallDeduplicateProducts
    \/ CallFilterProducts
    \/ CallExtractBrand
    \/ CallCleanBrandName
    \/ CallToDataframe

Spec == Init /\ [][Next]_vars

Returned(name) == op = name /\ phase = "done"

-----------------------------------------------------------------------------
(* app.py: one run of the script.  The sidebar widgets hold what the user  *)
(* entered; the widgets with a fixed range (selectbox, sliders,            *)
(* number_input) can only hold values of that range.                       *)

\* largest "Number of pages to scrape" drawn (the slider allows 1..MAX_PAGES)
MaxPagesDrawn == 2

\* "a" * (max_length + 1)
TooLongQuery == [i \in 1..(QueryMaxLength + 1) |-> "a"]

\* texts typed into "Search Term"
QueryTexts ==
    {<<"t", "v">>,
     <<" ", "t", "v", " ">>,
     <<>>,
     <<" ">>,
     <<"a", "<">>,
     <<"S", "c", "r", "i", "p", "t">>,
     <<"o", "n", "E", "r", "r", "o", "r", "=">>,
     TooLongQuery}

\* create_sidebar: the values the widgets can return; api_key tells whether
\* get_api_key finds a key, button whether "Analyse Products" was pressed
WidgetValues ==
    [api_key : BOOLEAN,
     query : QueryTexts,
     domain : {"amazon.co.uk"},
     num_pages : {n \in 1..MAX_PAGES : n <= MaxPagesDrawn},
     include_ads : BOOLEAN,
     include_organic : BOOLEAN,
     min_rating : {0, 40},
     min_reviews : {0, 100},
     button : BOOLEAN]

\* the keyword arguments create_sidebar passes to SearchRequest
SearchRequestKw(w) ==
    [query |-> w.query, domain |-> w.domain, num_pages |-> w.num_pages,
     include_ads |-> w.include_ads, include_organic |-> w.include_organic,
     min_rating |-> w.min_rating, min_reviews |-> w.min_reviews]

\* the JSON bodies SerpAPI answers with (no "error" key)
AppResponses ==
    {[has_organic_results |-> FALSE, organic_results |-> <<>>],
     [has_organic_results |-> TRUE,
      organic_results |->
          <<RawRecord(FALSE, Some(1), Some("B001"), Some(80), Some(100),
                      Some(45), Some(150))>>],
     [has_organic_results |-> TRUE,
      organic_results |->
          <<RawRecord(TRUE, Some(1), Some("B001"), Some(80), None,
                      Some(60), None),
            RawRecord(TRUE, Some(2), Some("B001"), Some(120), Some(100),
                      None, None)>>]}

\* no single operation is being called while the script runs
CallIdle ==
    /\ op = "none"
    /\ args = None
    /\ ret = None
    /\ phase = "done"
    /\ seen_before = {}
    /\ prev_call = None

AppInit ==
    /\ app_pc = "get_api_key"
    /\ widgets \in WidgetValues
    /\ search_request = None
    /\ page = 0
    /\ attempt = 0
    /\ all_products = <<>>
    /\ http_calls = 0
    /\ batches = 0
    /\ fetched = <<>>
    /\ page_results = <<>>
    /\ outcomes = <<>>
    /\ exc = "none"
    /\ session_df = <<>>
    /\ ui = <<>>
    /\ CallIdle

\* get_api_key: without a key st.error and st.stop
GetApiKey ==
    /\ app_pc = "get_api_key"
    /\ IF widgets.api_key
       THEN app_pc' = "create_sidebar" /\ ui' = ui
       ELSE app_pc' = "stopped" /\ ui' = Append(ui, "no_api_key")
    /\ UNCHANGED <<widgets, search_request, page, attempt, all_products,
                   http_calls, batches, fetched, page_results, outcomes, exc,
                   session_df>>
    /\ UNCHANGED callVars

\* create_sidebar: build the SearchRequest; a ValueError gives st.error and
\* st.stop
CreateSidebar ==
    /\ app_pc = "create_sidebar"
    /\ LET r == SearchRequest(SearchRequestKw(widgets))
       IN  IF r.raised
           THEN /\ ui' = Append(ui, "invalid_search_parameters")
                /\ app_pc' = "stopped"
                /\ search_request' = search_request
           ELSE /\ search_request' = r.value
                /\ app_pc' = "button"
                /\ ui' = ui
    /\ UNCHANGED <<widgets, page, attempt, all_products, http_calls, batches,
                   fetched, page_results, outcomes, exc, session_df>>
    /\ UNCHANGED callVars

\* main, lines 379-389: the button; an empty query stops the run; otherwise
\* fetch_products starts with page 1
AnalyseButton ==
    /\ app_pc = "button"
    /\ IF ~widgets.button
       THEN app_pc' = "done" /\ ui' = ui /\ UNCHANGED <<page, all_products>>
       ELSE IF search_request[1].query = <<>>
            THEN /\ ui' = Append(ui, "enter_search_term")
                 /\ app_pc' = "stopped"
                 /\ UNCHANGED <<page, all_products>>
            ELSE /\ app_pc' = "search_amazon"
                 /\ page' = 1
                 /\ all_products' = <<>>
                 /\ ui' = ui
    /\ UNCHANGED <<widgets, search_request, attempt, http_calls, batches,
                   fetched, page_results, outcomes, exc, session_df>>
    /\ UNCHANGED callVars

\* all_products.extend(products), with the new products put in front
extend_in_front(products_so_far, products) == products \o products_so_far

\* all_products.extend(products)
extend(products_so_far, products) == products_so_far \o products

\* what _make_request raises when its last allowed attempt ended in a
\* SerpAPINetworkError: @retry is given no reraise=True, so tenacity raises
\* its own RetryError (an Exception that is no SerpAPIError)
raised_after_retries == "RetryError"

\* the except clauses of fetch_products in their order: the messages the
\* clause that catches exception e on page page_no shows
handler_messages(e, page_no) ==
    IF e = "SerpAPIQuotaError" THEN <<"quota_exceeded">>
    ELSE IF e \in {"SerpAPINetworkError", "SerpAPIError"}
         THEN IF page_no > 1 THEN <<"api_error", "partial_results">>
              ELSE <<"api_error">>
    ELSE <<"unexpected_error">>

\* the except clauses of fetch_products going on with the loop instead of
\* leaving it
after_exception_goes_on(e, page_no) == "search_amazon"

\* the except clauses of fetch_products in their order: where the script is
\* after the clause that catches exception e on page page_no: `break` leaves
\* the loop, st.stop() on page 1 of the SerpAPIError clause ends the run
after_exception(e, page_no) ==
    IF e = "SerpAPIQuotaError" THEN "after_fetch"
    ELSE IF e \in {"SerpAPINetworkError", "SerpAPIError"}
         THEN IF page_no > 1 THEN "after_fetch" ELSE "stopped"
    ELSE "after_fetch"

\* search_amazon, lines 132-139: the parameter checks
SearchAmazonArgsOk(query, domain, page_no) ==
    /\ Strip(query) # <<>>
    /\ page_no >= 1
    /\ domain \in SUPPORTED_DOMAINS

\* search_amazon up to its call of _make_request; a ValueError is caught by
\* fetch_products' `except Exception`, which breaks the loop
SearchAmazon ==
    /\ app_pc = "search_amazon"
    /\ IF SearchAmazonArgsOk(search_request[1].query, search_request[1].domain, page)
       THEN app_pc' = "make_request" /\ ui' = ui /\ exc' = exc
       ELSE /\ app_pc' = after_exception("ValueError", page)
            /\ ui' = ui \o handler_messages("ValueError", page)
            /\ exc' = "ValueError"
    /\ attempt' = 0
    /\ outcomes' = <<>>
    /\ UNCHANGED <<widgets, search_request, page, all_products, http_calls,
                   batches, fetched, page_results, session_df>>
    /\ UNCHANGED callVars

\* one attempt of _make_request answers with data: search_amazon returns it,
\* fetch_products processes it, extends all_products and goes to the next
\* page or leaves the loop
HttpOk ==
    /\ app_pc = "make_request"
    /\ \E api_response \in AppResponses :
          LET products ==
                  process_api_response(api_response,
                                       search_request[1].include_organic,
                                       search_request[1].include_ads)
          IN  /\ all_products' = extend(all_products, products)
              /\ page_results' = Append(page_results, products)
    /\ outcomes' = Append(outcomes, "ok")
    /\ http_calls' = http_calls + 1
    /\ batches' = batches + 1
    /\ fetched' = Append(fetched, page)
    /\ attempt' = 0
    /\ IF page < search_request[1].num_pages
       THEN page' = page + 1 /\ app_pc' = "search_amazon"
       ELSE page' = page /\ app_pc' = "after_fetch"
    /\ UNCHANGED <<widgets, search_request, exc, session_df, ui>>
    /\ UNCHANGED callVars

\* one attempt ends in Timeout, ConnectionError or another RequestException:
\* SerpAPINetworkError, which tenacity retries until MAX_RETRIES attempts
\* were made and then turns into RetryError (reraise is not set); RetryError
\* is no SerpAPIError, so fetch_products takes `except Exception` and breaks
HttpNetworkError ==
    /\ app_pc = "make_request"
    /\ http_calls' = http_calls + 1
    /\ attempt' = attempt + 1
    /\ outcomes' = Append(outcomes, "network")
    /\ IF attempt + 1 < MAX_RETRIES
       THEN app_pc' = "make_request" /\ ui' = ui /\ exc' = exc
       ELSE /\ app_pc' = after_exception(raised_after_retries, page)
            /\ exc' = raised_after_retries
            /\ ui' = ui \o handler_messages(raised_after_retries, page)
    /\ UNCHANGED <<widgets, search_request, page, all_products, batches,
                   fetched, page_results, session_df>>
    /\ UNCHANGED callVars

\* one attempt ends in SerpAPIQuotaError (an "error" text naming credit,
\* quota or limit, or HTTP 429): not retried; fetch_products breaks
HttpQuotaError ==
    /\ app_pc = "make_request"
    /\ http_calls' = http_calls + 1
    /\ attempt' = attempt + 1
    /\ app_pc' = after_exception("SerpAPIQuotaError", page)
    /\ outcomes' = Append(outcomes, "quota")
    /\ exc' = "SerpAPIQuotaError"
    /\ ui' = ui \o handler_messages("SerpAPIQuotaError", page)
    /\ UNCHANGED <<widgets, search_request, page, all_products, batches,
                   fetched, page_results, session_df>>
    /\ UNCHANGED callVars

\* one attempt ends in a plain SerpAPIError (another "error" text, another
\* HTTP error): not retried; fetch_products breaks after page 1 and stops the
\* run on page 1
HttpApiError ==
    /\ app_pc = "make_request"
    /\ http_calls' = http_calls + 1
    /\ attempt' = attempt + 1
    /\ outcomes' = Append(outcomes, "api")
    /\ exc' = "SerpAPIError"
    /\ ui' = ui \o handler_messages("SerpAPIError", page)
    /\ app_pc' = after_exception("SerpAPIError", page)
    /\ UNCHANGED <<widgets, search_request, page, all_products, batches,
                   fetched, page_results, session_df>>
    /\ UNCHANGED callVars

\* main, lines 391-445: nothing found stops the run; deduplicate, filter by
\* min_rating and min_reviews; nothing left stops the run; else the table
AfterFetch ==
    /\ app_pc = "after_fetch"
    /\ IF all_products = <<>>
       THEN /\ ui' = Append(ui, "no_products_found")
            /\ app_pc' = "stopped"
            /\ UNCHANGED <<all_products, session_df>>
       ELSE LET unique == deduplicate_products(all_products)
                filtered_products ==
                    filter_products(unique, search_request[1].min_rating,
                                    search_request[1].min_reviews, None, None)
            IN  /\ all_products' = unique
                /\ IF filtered_products = <<>>
                   THEN /\ ui' = Append(ui, "no_products_match")
                        /\ app_pc' = "stopped"
                        /\ session_df' = session_df
                   ELSE /\ session_df' = to_dataframe(filtered_products).value
                        /\ ui' = Append(ui, "displayed")
                        /\ app_pc' = "done"
    /\ UNCHANGED <<widgets, search_request, page, attempt, http_calls,
                   batches, fetched, page_results, outcomes, exc>>
    /\ UNCHANGED callVars

AppNext ==
    \/ GetApiKey
    \/ CreateSidebar
    \/ AnalyseButton
    \/ SearchAmazon
    \/ HttpOk
    \/ HttpNetworkError
    \/ HttpQuotaError
    \/ HttpApiError
    \/ AfterFetch

SpecApp == AppInit /\ [][AppNext]_vars

\* the runs in which the key is found, a query that SearchRequest accepts is
\* entered and the button is pressed: the runs that get to search_amazon
AppInitSearch ==
    /\ AppInit
    /\ widgets.api_key
    /\ widgets.button
    /\ widgets.query \in {<<"t", "v">>, <<" ">>}

\* the run goes on while a step is possible: every requests.get ends within
\* REQUEST_TIMEOUT, every wait between attempts is at most 10 seconds, and
\* the script has no other place to block
SpecAppFair == AppInitSearch /\ [][AppNext]_vars /\ WF_vars(AppNext)

-----------------------------------------------------------------------------
(* Claims about single operations, checked under Spec *)

\* xs restricted to the indices in S, in ascending index order
SubSeqAt(xs, S) ==
    [k \in 1..Cardinality(S) |->
        xs[CHOOSE i \in S : Cardinality({j \in S : j <= i}) = k]]

\* the raw record's fields meet the declared ranges of Product
RawFieldsValid(raw) ==
    /\ raw.extracted_price = None \/ raw.extracted_price[1] >= 0
    /\ raw.extracted_old_price = None \/ raw.extracted_old_price[1] >= 0
    /\ raw.rating = None \/ (raw.rating[1] >= 0 /\ raw.rating[1] <= 50)
    /\ raw.reviews = None \/ raw.reviews[1] >= 0

\* the kind of a raw record is permitted by the two flags
KindPermitted(raw, include_organic, include_ads) ==
    IF raw.sponsored THEN include_ads ELSE include_organic

\* indices of the records that normalize and whose kind the flags permit
PermittedIdx(records, include_organic, include_ads) ==
    {i \in 1..Len(records) :
        /\ parse_product(records[i]).value # None
        /\ KindPermitted(records[i], include_organic, include_ads)}

\* C1: process_api_response returns exactly the normalized products whose
\* kind the flags permit, in input order: Sponsored iff include_ads, Organic
\* iff include_organic (so include_organic=false, include_ads=true returns
\* every normalizable Sponsored record).
C1_ResultIsPermittedNormalized ==
    Returned("process_api_response") =>
        LET records == IF args.api_response.has_organic_results
                       THEN args.api_response.organic_results ELSE <<>>
            idx == PermittedIdx(records, args.include_organic, args.include_ads)
        IN  ret.value =
                [k \in 1..Cardinality(idx) |->
                    parse_product(SubSeqAt(records, idx)[k]).value[1]]

\* C2: with include_organic = false and include_ads = false the result of
\* process_api_response is the empty sequence, whatever the response holds.
C2_BothFlagsOffGivesEmpty ==
    (Returned("process_api_response")
        /\ ~args.include_organic /\ ~args.include_ads)
    => (~ret.raised /\ ret.value = <<>>)

\* C2 witness: both flags off on a response holding a normalizable record
C2_Witness ==
    /\ Returned("process_api_response")
    /\ ~args.include_organic /\ ~args.include_ads
    /\ args.api_response.has_organic_results
    /\ \E i \in 1..Len(args.api_response.organic_results) :
          RawFieldsValid(args.api_response.organic_results[i])
    /\ ret.value = <<>>

\* indices deduplication must keep: no usable identifier, or the first
\* occurrence of its identifier
FirstOccurrenceIdx(xs) ==
    {i \in 1..Len(xs) :
        \/ xs[i].asin = None
        \/ xs[i].asin = Some("")
        \/ \A j \in 1..(i - 1) : xs[j].asin # xs[i].asin}

\* C3: deduplicate_products returns the subsequence of its input made of the
\* identifier-less products and the first occurrence of each non-empty
\* identifier, in input order; no two kept products share a non-empty
\* identifier.
C3_DedupKeepsFirstOccurrences ==
    Returned("deduplicate_products") =>
        /\ ret.value = SubSeqAt(args.products, FirstOccurrenceIdx(args.products))
        /\ \A i, j \in 1..Len(ret.value) :
              (i < j /\ ret.value[i].asin # None /\ ret.value[i].asin # Some(""))
              => ret.value[i].asin # ret.value[j].asin

\* C3 witness: two products share an identifier, another has none, and the
\* result holds the first of the pair and the identifier-less one
C3_Witness ==
    /\ Returned("deduplicate_products")
    /\ Len(args.products) = 3
    /\ args.products[1].asin = Some("B001")
    /\ args.products[2].asin = None
    /\ args.products[3].asin = Some("B001")
    /\ args.products[1] # args.products[3]
    /\ ret.value = <<args.products[1], args.products[2]>>

\* C4: deduplicate_products is idempotent: applied to its own result it
\* returns that result.
C4_DedupIdempotent ==
    Returned("deduplicate_products") =>
        deduplicate_products(ret.value) = ret.value

\* C4 witness: a call that removed a duplicate
C4_Witness ==
    /\ Returned("deduplicate_products")
    /\ Len(ret.value) < Len(args.products)
    /\ Len(ret.value) >= 2

\* the rating criterion as the claim states it
RatingCriterion(product, min_rating) ==
    min_rating > 0 => (product.rating # None /\ product.rating[1] >= min_rating)

\* the review criterion as the claim states it
ReviewsCriterion(product, min_reviews) ==
    min_reviews > 0 => (product.reviews # None /\ product.reviews[1] >= min_reviews)

\* C5: in filter_products a kept product meets the rating criterion
\* (min_rating > 0: rating known and >= min_rating) and the review criterion
\* (min_reviews > 0: count known and >= min_reviews); a threshold of 0
\* excludes nothing, unknown values included: with no price bound given the
\* result is exactly the products meeting both criteria, in order.
C5_RatingAndReviewThresholds ==
    Returned("filter_products") =>
        /\ \A i \in 1..Len(ret.value) :
              /\ RatingCriterion(ret.value[i], args.min_rating)
              /\ ReviewsCriterion(ret.value[i], args.min_reviews)
        /\ (args.max_price = None /\ args.min_price = None) =>
              ret.value =
                  SubSeqAt(args.products,
                           {i \in 1..Len(args.products) :
                               /\ RatingCriterion(args.products[i], args.min_rating)
                               /\ ReviewsCriterion(args.products[i], args.min_reviews)})

\* C5 witness: min_rating 4.0 on an unrated product and a 4.5-rated one
C5_Witness ==
    /\ Returned("filter_products")
    /\ args.min_rating = 40 /\ args.min_reviews = 0
    /\ args.max_price = None /\ args.min_price = None
    /\ Len(args.products) = 2
    /\ args.products[1].rating = None
    /\ args.products[2].rating = Some(45)
    /\ ret.value = <<args.products[2]>>

\* the price criteria as the claim states them
PriceCriteria(product, min_price, max_price) ==
    product.price # None =>
        /\ min_price # None => product.price[1] >= min_price[1]
        /\ max_price # None => product.price[1] <= max_price[1]

\* C6: in filter_products every given price bound (0 included) is applied
\* to every product whose price is known (0 included): it passes iff
\* price >= min_price and price <= max_price; unknown prices always pass.
C6_PriceBoundsApplied ==
    (Returned("filter_products") /\ args.min_rating = 0 /\ args.min_reviews = 0)
    => ret.value =
           SubSeqAt(args.products,
                    {i \in 1..Len(args.products) :
                        PriceCriteria(args.products[i], args.min_price,
                                      args.max_price)})

\* C7: a Product built with no explicit discount has discount_pct =
\* round((old_price - price) / old_price * 100, 1) when price and old_price
\* are both present (price 0 included) and old_price > 0, and 0 when price
\* or old_price is absent.
C7_DiscountDerived ==
    (Returned("Product") /\ ~ret.raised /\ args.kw.discount_pct = None) =>
        LET product == ret.value[1]
        IN  /\ (product.price # None /\ product.old_price # None
                /\ product.old_price[1] > 0)
               => product.discount_pct =
                      RoundHalfEven((product.old_price[1] - product.price[1]) * 1000,
                                    product.old_price[1])
            /\ (product.price = None \/ product.old_price = None)
               => product.discount_pct = 0

\* C8: every constructed Product, and every Product the normalizer returns,
\* has discount_pct within [0, 100], also when price > old_price.
C8_DiscountWithinRange ==
    ((Returned("Product") \/ Returned("parse_product")) /\ ret.value # None) =>
        /\ ret.value[1].discount_pct >= 0
        /\ ret.value[1].discount_pct <= 1000

-----------------------------------------------------------------------------
(* Claims about a run of the script, checked under SpecApp *)

\* the substrings a query must not contain, compared case-insensitively
DisallowedSubstrings ==
    {<<"<">>, <<">">>, <<"s", "c", "r", "i", "p", "t">>,
     <<"j", "a", "v", "a", "s", "c", "r", "i", "p", "t", ":">>,
     <<"o", "n", "e", "r", "r", "o", "r", "=">>}

\* the search parameters entered fail the declared constraints of
\* SearchRequest
RequestRejected(w) ==
    \/ \E d \in DisallowedSubstrings : Contains(Lower(w.query), d)
    \/ Len(w.query) < 1 \/ Len(w.query) > 200
    \/ w.domain \notin SUPPORTED_DOMAINS
    \/ w.num_pages < 1 \/ w.num_pages > 5
    \/ w.min_rating < 0 \/ w.min_rating > 50
    \/ w.min_reviews < 0

\* C10: in every run whose search parameters fail SearchRequest validation
\* the run stops in create_sidebar with the validation error; no HTTP
\* request is ever made and no batch is ever processed in that run.
C10_RejectedRequestMakesNoCall ==
    RequestRejected(widgets) =>
        /\ http_calls = 0
        /\ batches = 0
        /\ all_products = <<>>
        /\ session_df = <<>>
        /\ search_request = None
        /\ app_pc \in {"get_api_key", "create_sidebar", "stopped"}
        /\ (app_pc = "stopped" /\ widgets.api_key)
           => ui = <<"invalid_search_parameters">>

\* C10 witness: the button was pressed with a query holding "<" and the run
\* has stopped on the validation error
C10_Witness ==
    /\ widgets.api_key /\ widgets.button
    /\ Contains(widgets.query, <<"<">>)
    /\ app_pc = "stopped"
    /\ ui = <<"invalid_search_parameters">>
    /\ http_calls = 0

\* C11: every SearchRequest that was constructed holds a query of 1 to 200
\* characters that contains none of the disallowed substrings, whatever text
\* was entered, texts made only of whitespace included.
C11_ConstructedQueryInBounds ==
    search_request # None =>
        LET query == search_request[1].query
        IN  /\ Len(query) >= 1
            /\ Len(query) <= 200
            /\ \A d \in DisallowedSubstrings : ~Contains(Lower(query), d)

-----------------------------------------------------------------------------
(* Claims about BrandExtractor, checked under Spec *)

\* the "brand" value of a raw record, trimmed; empty when absent or null
TrimmedBrand(product_data) ==
    IF product_data.brand = None THEN <<>> ELSE Strip(product_data.brand[1])

\* the record has a brand that is not empty after trimming and is none of
\* "unknown", "n/a", "none" in lower case
HasExplicitBrand(product_data) ==
    /\ TrimmedBrand(product_data) # <<>>
    /\ Lower(TrimmedBrand(product_data))
           \notin {<<"u", "n", "k", "n", "o", "w", "n">>, <<"n", "/", "a">>, <<"n", "o", "n", "e">>}

\* C12: for every raw record whose brand is non-empty after trimming and is
\* not "unknown", "n/a" or "none" in lower case, extract_brand returns the
\* cleaned form of that brand whatever the title is; the title decides the
\* result only for the other records.
C12_ExplicitBrandWins ==
    (Returned("extract_brand") /\ HasExplicitBrand(args.product_data)) =>
        /\ ret.value = clean_brand_name(TrimmedBrand(args.product_data))
        /\ \A title \in {args.product_data.title, None, Some(<<"S", "o", "n", "y", " ", "-", " ", "W", "i", "r", "e", "l", "e", "s", "s", " ", "E", "a", "r", "b", "u", "d", "s">>)} :
               extract_brand([args.product_data EXCEPT !.title = title])
                   = ret.value

\* C12 witness: brand "Sony Store" with a title whose own brand would be
\* "Jbl" returned "Sony"
C12_Witness ==
    /\ Returned("extract_brand")
    /\ args.product_data.brand = Some(<<"S", "o", "n", "y", " ", "S", "t", "o", "r", "e">>)
    /\ args.product_data.title = Some(<<"J", "B", "L", ",", " ", "B", "l", "u", "e", "t", "o", "o", "t", "h", " ", "S", "p", "e", "a", "k", "e", "r">>)
    /\ ret.value = <<"S", "o", "n", "y">>

\* the text before the first character of chars in text, None if there is
\* no such character
TextBefore(text, chars) ==
    IF \A i \in 1..Len(text) : text[i] \notin chars THEN None
    ELSE Some(SubSeq(text, 1,
                     (CHOOSE i \in 1..Len(text) :
                          /\ text[i] \in chars
                          /\ \A j \in 1..(i - 1) : text[j] \notin chars) - 1))

\* position i of text is followed by whitespace, the word "by" and whitespace
ByFollows(text, i) ==
    \E j \in (i + 1)..Len(text) :
        /\ \A k \in (i + 1)..j : IsSpace(text[k])
        /\ j + 3 <= Len(text)
        /\ SubSeq(text, j + 1, j + 2) = <<"b", "y">>
        /\ IsSpace(text[j + 3])

\* the text before the first word "by" that has text before it
TextBeforeBy(text) ==
    IF \A i \in 1..Len(text) : ~ByFollows(text, i) THEN None
    ELSE Some(SubSeq(text, 1,
                     CHOOSE i \in 1..Len(text) :
                         /\ ByFollows(text, i)
                         /\ \A j \in 1..(i - 1) : ~ByFollows(text, j)))

\* the candidates of a title in the order of the claim, each trimmed
CandidatesInOrder(title) ==
    LET text == Strip(title)
        words == Split(text)
        Trimmed(c) == IF c = None THEN None ELSE Some(Strip(c[1]))
    IN  <<Trimmed(TextBefore(text, {"-", EnDash})),
          Trimmed(TextBefore(text, {","})),
          Trimmed(TextBeforeBy(text)),
          Trimmed(TextBefore(text, {"|"})),
          IF Len(words) >= 2 THEN Some(words[1] \o <<" ">> \o words[2])
          ELSE None,
          IF Len(words) >= 1 THEN Some(words[1]) ELSE None>>

\* validity screening as the claim states it
PassesScreening(candidate) ==
    /\ Len(candidate) >= 2
    /\ Len(candidate) <= 50
    /\ ~\E w \in {<<"p", "a", "c", "k">>,
                 <<"s", "e", "t">>,
                 <<"b", "u", "n", "d", "l", "e">>,
                 <<"p", "i", "e", "c", "e">>,
                 <<"p", "i", "e", "c", "e", "s">>,
                 <<"p", "c", "s">>,
                 <<"c", "o", "m", "p", "a", "t", "i", "b", "l", "e">>,
                 <<"r", "e", "p", "l", "a", "c", "e", "m", "e", "n", "t">>,
                 <<"f", "o", "r">>} :
           Contains(Lower(candidate), w)
    /\ \E i \in 1..Len(candidate) : candidate[i] \notin Digits \cup {" "}

\* C13: when the record has no usable explicit brand, extract_brand returns
\* the cleaned form of the first candidate that passes screening, the
\* candidates being taken in the order: text before a hyphen or en dash,
\* before a comma, before the word "by", before a pipe, the first two words,
\* the first word; a candidate that fails screening is passed over, and when
\* no candidate passes (or there is no title) the result is "Unknown".
C13_FirstPassingCandidate ==
    (Returned("extract_brand") /\ ~HasExplicitBrand(args.product_data)) =>
        LET candidates ==
                IF args.product_data.title = None THEN <<>>
                ELSE CandidatesInOrder(args.product_data.title[1])
            passing == {n \in 1..Len(candidates) :
                           /\ candidates[n] # None
                           /\ PassesScreening(candidates[n][1])}
        IN  IF passing = {} THEN ret.value = <<"U", "n", "k", "n", "o", "w", "n">>
            ELSE LET first == CHOOSE n \in passing : \A m \in passing : n <= m
                 IN  ret.value = clean_brand_name(candidates[first][1])

\* C13 witness: in "12 - Sony WH, x" the text before the hyphen is only
\* digits and is passed over; the result is the text before the comma
C13_Witness ==
    /\ Returned("extract_brand")
    /\ args.product_data.brand = None
    /\ args.product_data.title = Some(<<"1", "2", " ", "-", " ", "S", "o", "n", "y", " ", "W", "H", ",", " ", "x">>)
    /\ ret.value = <<"1", "2", " ", "-", " ", "S", "o", "n", "y", " ", "W", "H">>

\* the letters of text are all upper case or all lower case
EntirelyOneCase(text) ==
    /\ \E i \in 1..Len(text) : IsLetter(text[i])
    /\ \/ \A i \in 1..Len(text) : ~IsLowerChar(text[i])
       \/ \A i \in 1..Len(text) : ~IsUpperChar(text[i])

\* result is text in title case: the same characters up to case, a letter
\* being upper case exactly when no letter precedes it (the words of
\* str.title are the runs of letters)
IsTitleCaseOf(result, text) ==
    /\ Len(result) = Len(text)
    /\ Lower(result) = Lower(text)
    /\ \A i \in 1..Len(result) :
           IsLetter(result[i]) =>
               (IsUpperChar(result[i]) <=> (i = 1 \/ ~IsLetter(result[i - 1])))

\* C14: cleaning puts a text in title case exactly when the text, after its
\* whitespace was collapsed and a trailing Store/Official/Shop token was
\* removed, is entirely upper case or entirely lower case, and leaves the
\* casing as it is otherwise; the title "JBL, Bluetooth Speaker" yields
\* "Jbl" and "Sony - Wireless Earbuds" yields "Sony".
C14_TitleCaseOnlyWhenOneCase ==
    /\ Returned("clean_brand_name") =>
           LET text == remove_suffix(Join(Split(args.brand)))
           IN  IF EntirelyOneCase(text)
               THEN IsTitleCaseOf(ret.value, text)
               ELSE ret.value = text
    /\ (/\ Returned("extract_brand")
        /\ args.product_data
               = [brand |-> None, title |-> Some(<<"J", "B", "L", ",", " ", "B", "l", "u", "e", "t", "o", "o", "t", "h", " ", "S", "p", "e", "a", "k", "e", "r">>)])
           => ret.value = <<"J", "b", "l">>
    /\ (/\ Returned("extract_brand")
        /\ args.product_data
               = [brand |-> None, title |-> Some(<<"S", "o", "n", "y", " ", "-", " ", "W", "i", "r", "e", "l", "e", "s", "s", " ", "E", "a", "r", "b", "u", "d", "s">>)])
           => ret.value = <<"S", "o", "n", "y">>

\* C14 witness: "sony  Store" was cleaned to "Sony" and so put in title case
C14_Witness ==
    /\ Returned("clean_brand_name")
    /\ args.brand = <<"s", "o", "n", "y", " ", " ", "S", "t", "o", "r", "e">>
    /\ ret.value = <<"S", "o", "n", "y">>

-----------------------------------------------------------------------------
(* Claims about the brand of a Product, checked under Spec *)

\* C15: every Product that was constructed has a brand of 1 to 50
\* characters, whether it was constructed directly or by _parse_product
\* from whatever extract_brand returned (an explicit brand of more than 50
\* characters included); the brand is "Unknown" when none was supplied or
\* the supplied one is empty.
C15_BrandLengthWithinBounds ==
    /\ (Returned("Product") /\ ~ret.raised) =>
           /\ Len(ret.value[1].brand) >= 1
           /\ Len(ret.value[1].brand) <= 50
           /\ (args.kw.brand = None \/ args.kw.brand = Some(<<>>))
                  => ret.value[1].brand = <<"U", "n", "k", "n", "o", "w", "n">>
    /\ (Returned("parse_product") /\ ret.value # None) =>
           /\ Len(ret.value[1].brand) >= 1
           /\ Len(ret.value[1].brand) <= 50
           /\ (~TruthyText(args.raw_data.brand)
               /\ ~TruthyText(args.raw_data.title))
                  => ret.value[1].brand = <<"U", "n", "k", "n", "o", "w", "n">>

\* C15 witness: a raw record with an explicit brand of 51 characters was
\* parsed into a Product whose brand has 50 characters
C15_Witness ==
    /\ Returned("parse_product")
    /\ args.raw_data.brand = Some(LongBrand)
    /\ ret.value # None
    /\ Len(extract_brand([brand |-> args.raw_data.brand,
                          title |-> args.raw_data.title])) = 51
    /\ Len(ret.value[1].brand) = 50

-----------------------------------------------------------------------------
(* Claims about empty inputs, checked under Spec *)

\* C16: an empty input gives an empty output and no error at every stage:
\* process_api_response returns the empty list for a response without
\* records or without the organic_results key, deduplicate_products and
\* filter_products return the empty list for the empty list under every
\* combination of thresholds, and to_dataframe returns the empty table for
\* the empty list.
C16_EmptyInEmptyOut ==
    /\ (/\ Returned("process_api_response")
        /\ \/ ~args.api_response.has_organic_results
           \/ args.api_response.organic_results = <<>>)
           => (~ret.raised /\ ret.value = <<>>)
    /\ (Returned("deduplicate_products") /\ args.products = <<>>)
           => (~ret.raised /\ ret.value = <<>>)
    /\ (Returned("filter_products") /\ args.products = <<>>)
           => (~ret.raised /\ ret.value = <<>>)
    /\ (Returned("to_dataframe") /\ args.products = <<>>)
           => (/\ ~ret.raised
               /\ ret.value.rows = <<>>
               /\ ret.value.columns = {})

\* C16 witness: to_dataframe was called with the empty list and returned a
\* table without rows
C16_Witness ==
    /\ Returned("to_dataframe")
    /\ args.products = <<>>
    /\ ~ret.raised
    /\ ret.value.rows = <<>>

-----------------------------------------------------------------------------
(* Claims about fetch_products, checked under SpecApp *)

\* the concatenation of the lists of a sequence of lists, in order
RECURSIVE Concatenation(_)
Concatenation(lists) ==
    IF lists = <<>> THEN <<>>
    ELSE Head(lists) \o Concatenation(Tail(lists))

\* C17: fetch_products takes the pages one after the other in ascending
\* page number: a page is requested only when every page before it has been
\* processed and its products appended, no page beyond num_pages is
\* requested, and the accumulated products are the concatenation of the
\* per-page results in page order.
C17_PagesInOrder ==
    /\ fetched = [n \in 1..Len(fetched) |-> n]
    /\ Len(page_results) = Len(fetched)
    /\ app_pc \in {"search_amazon", "make_request"} =>
           /\ page = Len(fetched) + 1
           /\ page <= search_request[1].num_pages
    /\ app_pc \in {"search_amazon", "make_request", "after_fetch"} =>
           all_products = Concatenation(page_results)

\* C17 witness: two pages were fetched, their results differ and neither is
\* empty, and the loop is over
C17_Witness ==
    /\ app_pc = "after_fetch"
    /\ fetched = <<1, 2>>
    /\ page_results[1] # <<>>
    /\ page_results[2] # <<>>
    /\ page_results[1] # page_results[2]
    /\ all_products = page_results[1] \o page_results[2]

-----------------------------------------------------------------------------
(* processor.py: calls made one after the other on one ProductProcessor.   *)
(* prev_call is the call before the current one; seen_before gathers the   *)
(* identifiers the deduplicate_products calls made so far have met.        *)

\* longest product list of a call in a sequence of calls
MaxCallLen == 2

\* Products sharing an identifier, differing in position and rating
CallProducts ==
    ProductsOf({RawRecord(FALSE, Some(1), Some("B001"), Some(80), None,
                          Some(45), None),
                RawRecord(FALSE, Some(2), Some("B001"), Some(80), None,
                          None, None),
                RawRecord(FALSE, Some(1), Some("B002"), Some(80), None,
                          Some(30), None)})

\* the responses of a sequence of calls
CallResponses ==
    {[has_organic_results |-> FALSE, organic_results |-> <<>>],
     [has_organic_results |-> TRUE,
      organic_results |->
          <<RawRecord(FALSE, Some(1), Some("B001"), Some(80), None,
                      Some(45), None)>>],
     [has_organic_results |-> TRUE,
      organic_results |->
          <<RawRecord(TRUE, Some(1), Some("B001"), Some(80), None,
                      Some(45), None),
            RawRecord(FALSE, Some(2), Some("B002"), Some(-1), None,
                      None, None)>>]}

\* the non-empty identifiers of a product list
AsinsOf(products) ==
    {products[i].asin[1] :
        i \in {j \in 1..Len(products) : TruthyStr(products[j].asin)}}

\* a new ProductProcessor: no call was made yet
InitCalls == CallIdle /\ AppIdle

\* the caller makes the next call on the same processor
NextCall ==
    /\ phase = "done"
    /\ prev_call' = IF op = "none" THEN None
                    ELSE Some([op |-> op, args |-> args])
    /\ \/ /\ op' = "process_api_response"
          /\ args' \in [api_response : CallResponses,
                        include_organic : BOOLEAN, include_ads : {TRUE}]
       \/ /\ op' = "deduplicate_products"
          /\ args' \in [products : SeqUpTo(CallProducts, MaxCallLen)]
       \/ /\ op' = "filter_products"
          /\ args' \in [products : SeqUpTo(CallProducts, MaxCallLen),
                        min_rating : {40}, min_reviews : {0},
                        max_price : {None}, min_price : {None}]
    /\ phase' = "ready"
    /\ UNCHANGED <<ret, seen_before>>
    /\ UNCHANGED appVars

PerformProcessApiResponse ==
    /\ phase = "ready" /\ op = "process_api_response"
    /\ ret' = [raised |-> FALSE,
               value |-> process_api_response(args.api_response,
                                              args.include_organic,
                                              args.include_ads)]
    /\ phase' = "done"
    /\ UNCHANGED <<op, args, seen_before, prev_call>>
    /\ UNCHANGED appVars

PerformDeduplicateProducts ==
    /\ phase = "ready" /\ op = "deduplicate_products"
    /\ ret' = [raised |-> FALSE, value |-> deduplicate_products(args.products)]
    /\ seen_before' = seen_before \cup AsinsOf(args.products)
    /\ phase' = "done"
    /\ UNCHANGED <<op, args, prev_call>>
    /\ UNCHANGED appVars

PerformFilterProducts ==
    /\ phase = "ready" /\ op = "filter_products"
    /\ ret' = [raised |-> FALSE,
               value |-> filter_products(args.products, args.min_rating,
                                         args.min_reviews, args.max_price,
                                         args.min_price)]
    /\ phase' = "done"
    /\ UNCHANGED <<op, args, seen_before, prev_call>>
    /\ UNCHANGED appVars

NextCalls ==
    \/ NextCall
    \/ PerformProcessApiResponse
    \/ PerformDeduplicateProducts
    \/ PerformFilterProducts

SpecCalls == InitCalls /\ [][NextCalls]_vars

-----------------------------------------------------------------------------
(* Claims about sequences of calls, checked under SpecCalls *)

\* the result of the call that has returned is determined by its arguments
ResultFromArgumentsAlone ==
    (phase = "done" /\ op # "none") =>
        /\ op = "deduplicate_products" =>
               ret.value = SubSeqAt(args.products,
                                    FirstOccurrenceIdx(args.products))
        /\ op = "filter_products" =>
               ret.value = SubSeqAt(args.products,
                                    {i \in 1..Len(args.products) :
                                        filter_keeps(args.products[i],
                                                     args.min_rating,
                                                     args.min_reviews,
                                                     args.max_price,
                                                     args.min_price)})
        /\ op = "process_api_response" =>
               ret.value = SubSeqAt(
                   [i \in 1..Len(args.api_response.organic_results) |->
                       parse_product(args.api_response.organic_results[i])
                           .value[1]],
                   IF args.include_organic
                      /\ args.api_response.has_organic_results
                   THEN PermittedIdx(args.api_response.organic_results,
                                     args.include_organic, args.include_ads)
                   ELSE {})

\* the step in which a call returns leaves the arguments as they were passed
CallLeavesInputUnchanged ==
    (phase = "ready" /\ phase' = "done") => (op' = op /\ args' = args)

\* C18: no operation keeps state between invocations or changes its input:
\* whatever call was made before on the same ProductProcessor, the result
\* of process_api_response, deduplicate_products and filter_products is
\* determined by the arguments of the call alone (identifiers met by an
\* earlier deduplicate_products call cause no drop in a later one), and the
\* list passed in is the same after the call.
C18_CallsShareNoState ==
    []ResultFromArgumentsAlone /\ [][CallLeavesInputUnchanged]_vars

\* C18 witness: a deduplicate_products call met "B001", and the next
\* deduplicate_products call on the same processor still returned its
\* product with "B001"
C18_Witness ==
    /\ phase = "done"
    /\ op = "deduplicate_products"
    /\ prev_call # None
    /\ prev_call[1].op = "deduplicate_products"
    /\ "B001" \in AsinsOf(prev_call[1].args.products)
    /\ "B001" \in AsinsOf(args.products)
    /\ "B001" \in AsinsOf(ret.value)

-----------------------------------------------------------------------------
(* Claims about filter_products as a whole, checked under Spec *)

\* C19: filter_products keeps a product if and only if the rating
\* criterion, the review criterion, the minimum price and the maximum price
\* criterion all hold for it, and the result is the subsequence of the
\* input made of those products in input order: nothing is added,
\* duplicated or reordered, for every input and every combination of
\* thresholds.
C19_KeepsExactlyWhereAllCriteriaHold ==
    Returned("filter_products") =>
        /\ ret.value =
               SubSeqAt(args.products,
                        {i \in 1..Len(args.products) :
                            /\ RatingCriterion(args.products[i], args.min_rating)
                            /\ ReviewsCriterion(args.products[i],
                                                args.min_reviews)
                            /\ PriceCriteria(args.products[i], args.min_price,
                                             args.max_price)})
        /\ \E kept \in SUBSET (1..Len(args.products)) :
               ret.value = SubSeqAt(args.products, kept)

-----------------------------------------------------------------------------
(* Claims about the retried request, checked under SpecApp *)

\* every attempt of the request that is over ended in a network error
EveryAttemptFailedOnNetwork ==
    /\ app_pc # "make_request"
    /\ outcomes # <<>>
    /\ \A i \in 1..Len(outcomes) : outcomes[i] = "network"

\* C20: when every attempt of a search request fails with a network error,
\* the exception that reaches fetch_products is a SerpAPINetworkError, and
\* fetch_products handles it in its SerpAPIError branch (the API error
\* message, not the "unexpected error" one).
C20_NetworkErrorReachesCaller ==
    EveryAttemptFailedOnNetwork =>
        /\ exc = "SerpAPINetworkError"
        /\ \E i \in 1..Len(ui) : ui[i] = "api_error"
        /\ \A i \in 1..Len(ui) : ui[i] # "unexpected_error"

-----------------------------------------------------------------------------
(* Claims about the attempts of one search_amazon call, checked under      *)
(* SpecAppFair                                                             *)

\* the attempts of the current call: at most 3, each one but the last ended
\* in a network error, and a quota or API error was the last attempt and is
\* the error the call ended with
AttemptsWithinLimit ==
    /\ Len(outcomes) <= 3
    /\ \A i \in 1..(Len(outcomes) - 1) : outcomes[i] = "network"
    /\ app_pc = "make_request" =>
           /\ Len(outcomes) < 3
           /\ \A i \in 1..Len(outcomes) : outcomes[i] = "network"
    /\ (outcomes # <<>> /\ outcomes[Len(outcomes)] = "quota") =>
           (app_pc # "make_request" /\ exc = "SerpAPIQuotaError")
    /\ (outcomes # <<>> /\ outcomes[Len(outcomes)] = "api") =>
           (app_pc # "make_request" /\ exc = "SerpAPIError")

\* C21: every search_amazon call ends, after at most MAX_RETRIES (3) HTTP
\* attempts: another attempt is made only after an attempt that ended in a
\* network error, and an attempt that ends in a quota error, another API
\* error or another HTTP error ends the call with that error and no
\* further attempt.
C21_CallEndsWithinMaxRetries ==
    /\ []AttemptsWithinLimit
    /\ (app_pc = "make_request") ~> (app_pc # "make_request")

\* C21 witness: two attempts ended in a network error, the third in a quota
\* error, and the call is over with the quota error
C21_Witness ==
    /\ outcomes = <<"network", "network", "quota">>
    /\ exc = "SerpAPIQuotaError"
    /\ app_pc # "make_request"

-----------------------------------------------------------------------------
(* Claims about a failing page, checked under SpecApp *)

\* after an exception was caught on page `page`: no page is being
\* requested, the pages fetched are exactly those before `page`, and what
\* is kept is what those pages gave (nothing for page 1), before and after
\* main has removed the duplicates
ErrorEndsFetching ==
    exc # "none" =>
        /\ app_pc \notin {"search_amazon", "make_request"}
        /\ fetched = [n \in 1..(page - 1) |-> n]
        /\ Len(page_results) = page - 1
        /\ app_pc = "after_fetch" =>
               all_products = Concatenation(page_results)
        /\ all_products \in
               {Concatenation(page_results),
                SubSeqAt(Concatenation(page_results),
                         FirstOccurrenceIdx(Concatenation(page_results)))}
        /\ page = 1 => all_products = <<>>

\* a step taken after an exception was caught makes no request and
\* processes no page
NoRequestAfterError ==
    exc # "none" =>
        /\ http_calls' = http_calls
        /\ batches' = batches
        /\ fetched' = fetched
        /\ page' = page

\* C22: once the fetch of a page has raised an error in fetch_products
\* (quota error, API error or unexpected error), no later page is requested
\* in that search, and what is retained is exactly the products of the
\* pages before the failing one; after a failure on page 1 nothing is
\* retained or the run stops.
C22_NoPageAfterFailure ==
    []ErrorEndsFetching /\ [][NoRequestAfterError]_vars

\* C22 witness: two pages were asked for, page 1 ended in a quota error,
\* and the run is over without page 2 ever being requested
C22_Witness ==
    /\ search_request # None
    /\ search_request[1].num_pages = 2
    /\ exc = "SerpAPIQuotaError"
    /\ page = 1
    /\ fetched = <<>>
    /\ app_pc = "stopped"
    /\ http_calls = 1

====
